---- MODULE Spec2Model ----
(***************************************************************************)
(* A model of the disk-backed B+ tree of include/b_plus_tree.h             *)
(* (BPlusTree<Key, Value>) on top of the page medium of OSInterface.       *)
(*                                                                         *)
(* Key is int (4 bytes, as in the repository's tests); sizeof(Value) is    *)
(* the template parameter value_size, fixed by Init.  A page is the        *)
(* sequence of its bytes with the trailing bytes that are still zero left  *)
(* implicit: a std::vector<std::byte>(PAGE_SIZE) starts all zero, so the   *)
(* empty sequence is the all-zero page.  One Insert call is one action;    *)
(* the reads, writes, allocations and root updates it performs are         *)
(* recorded, in program order, in the variable trace.                      *)
(*                                                                         *)
(* The SQL parser of parser/parser.cc (Query::Parser) is modelled over     *)
(* the token kinds its Lexer yields; it shares no state with the tree.     *)
(***************************************************************************)
EXTENDS Integers, Sequences, FiniteSets, TLC

\* ----- bounds of the model -----
MaxKey == 5
MaxInserts == 5
MaxOrder == 4
\* the specification with wide values
WideValueSize == 1024
MaxWideKey == 3
MaxWideInserts == 4
\* the specification with a failing medium
MaxFaultInserts == 4
MaxFailAt == 3
\* deep trees: the number of Insert calls of SpecDeep
MaxDeepInserts == 10
\* the parser: tokens typed after WHERE, and changes made to a statement
MaxExprTokens == 9
MaxEdits == 2

\* ----- program constants -----
INVALID_PAGE == 0
PAGE_SIZE == 4096
NodeType_Invalid == 0
NodeType_Leaf == 1
NodeType_Internal == 2
U32_SIZE == 4
KEY_SIZE == 4
INT_VALUE_SIZE == 4

Keys == 1..MaxKey
\* every key some specification passes to Insert
AllKeys == 1..(IF MaxKey > MaxDeepInserts THEN MaxKey ELSE MaxDeepInserts)
Orders == 3..MaxOrder

None == [has_value |-> FALSE]
Some(k, p) == [has_value |-> TRUE, first |-> k, second |-> p]

\* ----------------------------------------------------------------------
\* Sequence helpers standing for the std::vector operations the code uses
\* ----------------------------------------------------------------------
Min(a, b) == IF a < b THEN a ELSE b

\* vector::insert(begin() + idx, x), idx 0-based
InsertAt(s, idx, x) == SubSeq(s, 1, idx) \o <<x>> \o SubSeq(s, idx + 1, Len(s))

\* vector::assign(begin() + from, end()), from 0-based
Tail_From(s, from) == SubSeq(s, from + 1, Len(s))

\* vector::resize(n) when n <= size()
Head_To(s, n) == SubSeq(s, 1, n)

\* n zero bytes
Zeros(n) == [i \in 1..n |-> 0]

\* std::lower_bound over [first, first+len) of a 1-based sequence (first 0-based)
RECURSIVE LowerBoundFrom(_, _, _, _)
LowerBoundFrom(s, first, len, val) ==
    IF len <= 0 THEN first
    ELSE LET half == len \div 2
             middle == first + half
         IN IF s[middle + 1] < val
            THEN LowerBoundFrom(s, middle + 1, len - half - 1, val)
            ELSE LowerBoundFrom(s, first, half, val)

lower_bound(s, val) == LowerBoundFrom(s, 0, Len(s), val)

\* std::upper_bound
RECURSIVE UpperBoundFrom(_, _, _, _)
UpperBoundFrom(s, first, len, val) ==
    IF len <= 0 THEN first
    ELSE LET half == len \div 2
             middle == first + half
         IN IF val < s[middle + 1]
            THEN UpperBoundFrom(s, first, half, val)
            ELSE UpperBoundFrom(s, middle + 1, len - half - 1, val)

upper_bound(s, val) == UpperBoundFrom(s, 0, Len(s), val)

\* ----------------------------------------------------------------------
\* Node structures
\* ----------------------------------------------------------------------
\* LeafNode(): next_leaf_page_(0), empty vectors
LeafNode == [keys_ |-> <<>>, values_ |-> <<>>, next_leaf_page_ |-> 0]

\* InternalNode(bool is_root = false)
InternalNode(is_root) == [keys_ |-> <<>>, children_ |-> <<>>, is_root_ |-> is_root]

\* ----------------------------------------------------------------------
\* Byte-level codec
\* ----------------------------------------------------------------------
\* memcpy of a uint32_t / int into the page: 4 bytes, little-endian
LE32(n) == << n % 256, (n \div 256) % 256, (n \div 65536) % 256, (n \div 16777216) % 256 >>

\* memcpy of a Value of vsize bytes: the int it carries, then its remaining bytes
EncodeValue(v, vsize) == LE32(v) \o Zeros(vsize - U32_SIZE)

\* page[off] of a page buffer (bytes never written are zero)
ByteAt(page, off) == IF off < Len(page) THEN page[off + 1] ELSE 0

\* memcpy of 4 bytes out of the page at off
U32At(page, off) ==
    ByteAt(page, off) + 256 * ByteAt(page, off + 1)
      + 65536 * ByteAt(page, off + 2) + 16777216 * ByteAt(page, off + 3)

RECURSIVE EncodeValues(_, _)
EncodeValues(vs, vsize) ==
    IF vs = <<>> THEN <<>>
    ELSE EncodeValue(Head(vs), vsize) \o EncodeValues(Tail(vs), vsize)

RECURSIVE EncodeEntries(_, _, _, _)
EncodeEntries(node, i, count, vsize) ==
    IF i > count THEN <<>>
    ELSE LE32(node.keys_[i]) \o LE32(Len(node.values_[i]))
           \o EncodeValues(node.values_[i], vsize)
           \o EncodeEntries(node, i + 1, count, vsize)

\* The bytes SerializeLeaf stores from offset 0 on (as many as the node needs,
\* whatever the size of the buffer).
LeafBytes_NoNextLeaf(node, vsize) ==
    <<NodeType_Leaf>> \o LE32(0) \o LE32(Len(node.keys_))
      \o EncodeEntries(node, 1, Len(node.keys_), vsize)

LeafBytes(node, vsize) ==
    <<NodeType_Leaf>> \o LE32(node.next_leaf_page_) \o LE32(Len(node.keys_))
      \o EncodeEntries(node, 1, Len(node.keys_), vsize)

RECURSIVE EncodeU32s(_)
EncodeU32s(s) == IF s = <<>> THEN <<>> ELSE LE32(Head(s)) \o EncodeU32s(Tail(s))

InternalBytes_InvalidTag(node) ==
    <<NodeType_Invalid>> \o LE32(Len(node.keys_)) \o EncodeU32s(node.keys_)
      \o EncodeU32s(node.children_)

\* The bytes SerializeInternal stores from offset 0 on.
InternalBytes(node) ==
    <<NodeType_Internal>> \o LE32(Len(node.keys_)) \o EncodeU32s(node.keys_)
      \o EncodeU32s(node.children_)

\* Storing bytes from offset 0 into a buffer: the buffer's later bytes stay.
Overlay(page, bytes) == bytes \o SubSeq(page, Len(bytes) + 1, Len(page))

\* The part of a store that lands inside the PAGE_SIZE buffer.
InPage(bytes) == SubSeq(bytes, 1, Min(Len(bytes), PAGE_SIZE))

RECURSIVE DecodeValues(_, _, _, _)
DecodeValues(page, offset, vcount, vsize) ==
    IF vcount = 0 THEN <<>>
    ELSE <<U32At(page, offset)>> \o DecodeValues(page, offset + vsize, vcount - 1, vsize)

RECURSIVE DecodeEntries(_, _, _, _, _)
DecodeEntries(page, offset, remaining, vsize, node) ==
    IF remaining = 0 THEN node
    ELSE LET k == U32At(page, offset)
             vcount == U32At(page, offset + KEY_SIZE)
             vs == DecodeValues(page, offset + KEY_SIZE + U32_SIZE, vcount, vsize)
         IN DecodeEntries(page, offset + KEY_SIZE + U32_SIZE + vcount * vsize,
                          remaining - 1, vsize,
                          [node EXCEPT !.keys_ = Append(@, k), !.values_ = Append(@, vs)])

DeserializeLeaf(page, vsize) ==
    DecodeEntries(page, 9, U32At(page, 5), vsize,
                  [LeafNode EXCEPT !.next_leaf_page_ = U32At(page, 1)])

RECURSIVE DecodeU32s(_, _, _)
DecodeU32s(page, offset, n) ==
    IF n = 0 THEN <<>> ELSE <<U32At(page, offset)>> \o DecodeU32s(page, offset + U32_SIZE, n - 1)

DeserializeInternal(page) ==
    LET count == U32At(page, 1)
    IN [InternalNode(FALSE) EXCEPT
          !.keys_ = DecodeU32s(page, 5, count),
          !.children_ = DecodeU32s(page, 5 + count * KEY_SIZE, count + 1)]

IsLeaf(page) == ByteAt(page, 0) = NodeType_Leaf

\* ----------------------------------------------------------------------
\* Page medium (OSInterface over one std::fstream)
\* ----------------------------------------------------------------------
RECURSIVE ZeroPages(_)
ZeroPages(n) == IF n <= 0 THEN <<>> ELSE << <<>> >> \o ZeroPages(n - 1)

\* The file after PAGE_SIZE bytes are stored at offset p * PAGE_SIZE: page p is
\* file[p + 1]; pages skipped over by the seek read back as zeros.
FilePut(file, p, buf) ==
    IF p < Len(file) THEN [file EXCEPT ![p + 1] = buf]
    ELSE file \o ZeroPages(p - Len(file)) \o <<buf>>

\* The state threaded through one Insert call:
\*   file, good     the backing file and whether the fstream is still good()
\*   fail_in        the medium's n-th next operation fails (0: none does)
\*   root_page, next_page, order    root_page_, next_page_, order_
\*   vsize          sizeof(Value)
\*   bufs           the page buffers in use: <<page, ->> or <<page1, page2>>
\*   new_page       the page number AllocatePage returned last
\*   promoted       the std::optional the running InsertRecursive call fills
\*   ret            the value Insert returns ("none": it does not return)
\*   ub             what the build does on a store past the end of a page buffer
\*   overrun, dead  such a store happened; it ended the process
\*   crashed        the recursion never returns (stack exhaustion)
\*   log            the operations performed, in program order
Machine(f, g, root_page, next_page, order, vsize, fail_in, ub) ==
    [file |-> f, good |-> g, root_page |-> root_page, next_page |-> next_page,
     order |-> order, vsize |-> vsize, fail_in |-> fail_in, ub |-> ub,
     bufs |-> << <<>>, <<>> >>, new_page |-> 0, promoted |-> None, ret |-> "none",
     overrun |-> FALSE, dead |-> FALSE, crashed |-> FALSE, log |-> <<>>]

Tick(n) == IF n > 0 THEN n - 1 ELSE 0

\* Whether the medium's next operation goes through: a failed operation sets
\* the stream's failbit or badbit, which stays set, so every later one fails.
MediumOk(m) == m.good /\ m.fail_in # 1

\* OSInterface::ReadPage through BPlusTree::ReadPage, into the fresh zeroed
\* buffer bufs[1].  A read that fails leaves the buffer as it was.
ReadPage(m, page_num) ==
    [m EXCEPT !.bufs[1] = IF MediumOk(m) /\ page_num < Len(m.file)
                          THEN m.file[page_num + 1] ELSE <<>>,
              !.good = MediumOk(m) /\ page_num < Len(m.file),
              !.fail_in = Tick(@),
              !.log = Append(@, [op |-> "read", page |-> page_num,
                                 ok |-> MediumOk(m) /\ page_num < Len(m.file)])]

\* OSInterface::WritePage through BPlusTree::WritePage, from bufs[slot].  node
\* is the node value the buffer was serialized from (recorded, not used).
WritePage(m, page_num, slot, node) ==
    [m EXCEPT !.file = IF MediumOk(m) /\ ~m.dead THEN FilePut(@, page_num, m.bufs[slot]) ELSE @,
              !.good = MediumOk(m),
              !.fail_in = Tick(@),
              !.log = Append(@, [op |-> "write", page |-> page_num, ok |-> MediumOk(m),
                                 bytes |-> m.bufs[slot], node |-> node, dead |-> m.dead])]

\* ----------------------------------------------------------------------
\* Page helpers
\* ----------------------------------------------------------------------
AllocatePage_NoIncrement(next_page) == [page |-> next_page, next_page |-> next_page]

\* return next_page_++ (a uint32_t; the counters of this model stay far below
\* 2^32, where it would wrap)
AllocatePage(next_page) == [page |-> next_page, next_page |-> next_page + 1]

Allocate(m) ==
    [m EXCEPT !.new_page = AllocatePage(m.next_page).page,
              !.next_page = AllocatePage(m.next_page).next_page,
              !.log = Append(@, [op |-> "alloc", page |-> AllocatePage(m.next_page).page])]

\* A serialization of bytes into the PAGE_SIZE buffer bufs[slot], which held
\* page before.  Bytes that do not fit are stored past the end of the buffer:
\* undefined behaviour, which either ends the process there ("abort") or goes
\* unnoticed ("silent").
Store(m, slot, page, bytes) ==
    [m EXCEPT !.bufs[slot] = InPage(Overlay(page, bytes)),
              !.overrun = @ \/ Len(bytes) > PAGE_SIZE,
              !.dead = @ \/ (Len(bytes) > PAGE_SIZE /\ m.ub = "abort"),
              !.log = IF Len(bytes) > PAGE_SIZE
                      THEN Append(@, [op |-> "overrun", size |-> Len(bytes)])
                      ELSE @]

SerializeLeaf(m, node, page, slot) == Store(m, slot, page, LeafBytes(node, m.vsize))

SerializeInternal(m, node, page, slot) == Store(m, slot, page, InternalBytes(node))

\* ----------------------------------------------------------------------
\* Insert / split / promote
\* ----------------------------------------------------------------------
LeafPut_Overwrite(node, key, value) ==
    LET idx == lower_bound(node.keys_, key)
    IN IF idx < Len(node.keys_) /\ node.keys_[idx + 1] = key
       THEN [node EXCEPT !.values_[idx + 1] = <<value>>]
       ELSE [node EXCEPT !.keys_ = InsertAt(@, idx, key),
                         !.values_ = InsertAt(@, idx, <<value>>)]

LeafPut_PushBack(node, key, value) ==
    LET idx == lower_bound(node.keys_, key)
    IN IF idx < Len(node.keys_) /\ node.keys_[idx + 1] = key
       THEN [node EXCEPT !.values_[idx + 1] = Append(@, value)]
       ELSE [node EXCEPT !.keys_ = Append(@, key), !.values_ = Append(@, <<value>>)]

\* InsertRecursive, leaf branch: the update of the decoded leaf
LeafPut(node, key, value) ==
    LET idx == lower_bound(node.keys_, key)
    IN IF idx < Len(node.keys_) /\ node.keys_[idx + 1] = key
       THEN [node EXCEPT !.values_[idx + 1] = Append(@, value)]
       ELSE [node EXCEPT !.keys_ = InsertAt(@, idx, key),
                         !.values_ = InsertAt(@, idx, <<value>>)]

ChildIndex_LowerBound(node, key) == lower_bound(node.keys_, key)

ChildIndex_TiesLeft(node, key) ==
    IF \E j \in 1..Len(node.keys_) : node.keys_[j] = key
    THEN upper_bound(node.keys_, key) - 1
    ELSE upper_bound(node.keys_, key)

\* InsertRecursive, internal branch: the child index the descent takes
ChildIndex(node, key) == upper_bound(node.keys_, key)

InternalPut_BeforeChild(node, k_prime, new_page) ==
    LET pos == upper_bound(node.keys_, k_prime)
    IN [node EXCEPT !.keys_ = InsertAt(@, pos, k_prime),
                    !.children_ = InsertAt(@, pos, new_page)]

\* InsertRecursive, internal branch: the promoted pair placed in the parent
InternalPut(node, k_prime, new_page) ==
    LET pos == upper_bound(node.keys_, k_prime)
    IN [node EXCEPT !.keys_ = InsertAt(@, pos, k_prime),
                    !.children_ = InsertAt(@, pos + 1, new_page)]

LeafOverflows_Late(node, order) == Len(node.keys_) > order

\* node.keys_.size() > order_ - 1, the right side in uint32_t arithmetic:
\* 0 - 1 is 2^32 - 1, which no size exceeds
LeafOverflows(node, order) == IF order = 0 THEN FALSE ELSE Len(node.keys_) > order - 1

InternalOverflows_Early(node, order) == Len(node.children_) > order - 1

InternalOverflows_Late(node, order) == Len(node.children_) > order + 1

\* node.children_.size() > order_
InternalOverflows(node, order) == Len(node.children_) > order

SplitLeafRight_DropFirst(node) ==
    LET mid == Len(node.keys_) \div 2
    IN [LeafNode EXCEPT !.keys_ = Tail_From(node.keys_, mid + 1),
                        !.values_ = Tail_From(node.values_, mid + 1),
                        !.next_leaf_page_ = node.next_leaf_page_]

SplitLeafRight_NoInherit(node) ==
    LET mid == Len(node.keys_) \div 2
    IN [LeafNode EXCEPT !.keys_ = Tail_From(node.keys_, mid),
                        !.values_ = Tail_From(node.values_, mid),
                        !.next_leaf_page_ = 0]

\* SplitLeaf: the new right leaf
SplitLeafRight(node) ==
    LET mid == Len(node.keys_) \div 2
    IN [LeafNode EXCEPT !.keys_ = Tail_From(node.keys_, mid),
                        !.values_ = Tail_From(node.values_, mid),
                        !.next_leaf_page_ = node.next_leaf_page_]

SplitLeafLeft_KeepMid(node, new_page) ==
    LET mid == Len(node.keys_) \div 2
    IN [node EXCEPT !.keys_ = Head_To(@, mid + 1), !.values_ = Head_To(@, mid + 1),
                    !.next_leaf_page_ = new_page]

\* SplitLeaf: the original node after the split
SplitLeafLeft(node, new_page) ==
    LET mid == Len(node.keys_) \div 2
    IN [node EXCEPT !.keys_ = Head_To(@, mid), !.values_ = Head_To(@, mid),
                    !.next_leaf_page_ = new_page]

Promote(m, k, p) ==
    [m EXCEPT !.promoted = Some(k, p),
              !.log = Append(@, [op |-> "promote", key |-> k, page |-> p])]

LogSplit(m, kind, page_num, node) ==
    [m EXCEPT !.log = Append(@, [op |-> "split", kind |-> kind, page |-> page_num,
                                 node |-> node])]

\* SplitLeaf from the serializations on; m.new_page is the page just allocated
SplitLeafPersist(m, page_num, left, new_leaf) ==
    Promote(WritePage(WritePage(SerializeLeaf(SerializeLeaf(m, left, <<>>, 1),
                                              new_leaf, <<>>, 2),
                                page_num, 1, left),
                      m.new_page, 2, new_leaf),
            new_leaf.keys_[1], m.new_page)

SplitLeafAllocated(m, page_num, node) ==
    SplitLeafPersist(m, page_num, SplitLeafLeft(node, m.new_page), SplitLeafRight(node))

SplitLeaf(m, page_num, node) ==
    SplitLeafAllocated(Allocate(LogSplit(m, "leaf", page_num, node)), page_num, node)

SplitInternalRight_KeepMid(node) ==
    LET mid == Len(node.keys_) \div 2
    IN [InternalNode(FALSE) EXCEPT !.keys_ = Tail_From(node.keys_, mid),
                                   !.children_ = Tail_From(node.children_, mid + 1)]

SplitInternalRight_ShareChild(node) ==
    LET mid == Len(node.keys_) \div 2
    IN [InternalNode(FALSE) EXCEPT !.keys_ = Tail_From(node.keys_, mid + 1),
                                   !.children_ = Tail_From(node.children_, mid)]

\* SplitInternal: the new right node
SplitInternalRight(node) ==
    LET mid == Len(node.keys_) \div 2
    IN [InternalNode(FALSE) EXCEPT !.keys_ = Tail_From(node.keys_, mid + 1),
                                   !.children_ = Tail_From(node.children_, mid + 1)]

\* SplitInternal: the original node after the split
SplitInternalLeft(node) ==
    LET mid == Len(node.keys_) \div 2
    IN [node EXCEPT !.keys_ = Head_To(@, mid), !.children_ = Head_To(@, mid + 1)]

SplitInternalMidKey_First(node) == node.keys_[1]

\* SplitInternal: mid_key
SplitInternalMidKey(node) == node.keys_[(Len(node.keys_) \div 2) + 1]

SplitInternalPersist_PromoteChild(m, page_num, mid_key, left, new_node) ==
    Promote(WritePage(WritePage(SerializeInternal(SerializeInternal(m, left, <<>>, 1),
                                                  new_node, <<>>, 2),
                                page_num, 1, left),
                      m.new_page, 2, new_node),
            mid_key, new_node.children_[1])

\* SplitInternal from the serializations on; m.new_page is the page just allocated
SplitInternalPersist(m, page_num, mid_key, left, new_node) ==
    Promote(WritePage(WritePage(SerializeInternal(SerializeInternal(m, left, <<>>, 1),
                                                  new_node, <<>>, 2),
                                page_num, 1, left),
                      m.new_page, 2, new_node),
            mid_key, m.new_page)

SplitInternal(m, page_num, node) ==
    SplitInternalPersist(Allocate(LogSplit(m, "internal", page_num, node)), page_num,
                         SplitInternalMidKey(node), SplitInternalLeft(node),
                         SplitInternalRight(node))

\* InsertRecursive, leaf branch, after the update of the node; page is the
\* buffer the page was read into
LeafBranch(m, page_num, node, page) ==
    IF LeafOverflows(node, m.order)
    THEN SplitLeaf(m, page_num, node)
    ELSE WritePage(SerializeLeaf(m, node, page, 1), page_num, 1, node)

\* InsertRecursive, internal branch, after the recursive call returned in m
\* with the child's promoted pair in m.promoted
AfterChild(m, page_num, grown, page) ==
    IF InternalOverflows(grown, m.order)
    THEN SplitInternal([m EXCEPT !.promoted = None], page_num, grown)
    ELSE WritePage(SerializeInternal([m EXCEPT !.promoted = None], grown, page, 1),
                   page_num, 1, grown)

\* InsertRecursive, internal branch: the child's promoted pair goes into node
LogPut(m, page_num, node) ==
    [m EXCEPT !.log = Append(@, [op |-> "put", page |-> page_num, node |-> node,
                                 key |-> m.promoted.first, child |-> m.promoted.second,
                                 pos |-> upper_bound(node.keys_, m.promoted.first),
                                 grown |-> InternalPut(node, m.promoted.first,
                                                       m.promoted.second)])]

ChildReturned_AlwaysWrite(m, page_num, node, page) ==
    IF m.crashed THEN m
    ELSE IF ~m.promoted.has_value
    THEN WritePage(SerializeInternal(m, node, page, 1), page_num, 1, node)
    ELSE AfterChild(LogPut(m, page_num, node), page_num,
                    InternalPut(node, m.promoted.first, m.promoted.second), page)

\* InsertRecursive, internal branch, once the recursive call has returned
ChildReturned(m, page_num, node, page) ==
    IF m.crashed \/ ~m.promoted.has_value
    THEN m
    ELSE AfterChild(LogPut(m, page_num, node), page_num,
                    InternalPut(node, m.promoted.first, m.promoted.second), page)

\* if (IsLeaf(page)) ... else ...: what the page just read is decoded as
Dispatch(m, page_num) ==
    [m EXCEPT !.log = Append(@, [op |-> "decode", page |-> page_num,
                                 tag |-> ByteAt(m.bufs[1], 0),
                                 as |-> IF IsLeaf(m.bufs[1]) THEN "leaf" ELSE "internal"])]

\* InsertRecursive, internal branch: the child the descent goes into, chosen
\* in the node decoded from the page just read
Route(m, page_num, key) ==
    [m EXCEPT !.log = Append(@, [op |-> "route", page |-> page_num, key |-> key,
                                 node |-> DeserializeInternal(m.bufs[1]),
                                 i |-> ChildIndex(DeserializeInternal(m.bufs[1]), key),
                                 child |-> DeserializeInternal(m.bufs[1]).children_[
                                     ChildIndex(DeserializeInternal(m.bufs[1]), key) + 1]])]

\* path: the pages of the calls still on the stack.  No page is written before
\* the recursive call, so reaching a page of path again repeats for ever.
\* On entry m.promoted is the caller's empty optional.
RECURSIVE InsertRecursive(_, _, _, _, _)
PageRead(m, page_num, key, value, path) ==
    IF IsLeaf(m.bufs[1])
    THEN LeafBranch(m, page_num, LeafPut(DeserializeLeaf(m.bufs[1], m.vsize), key, value),
                    m.bufs[1])
    ELSE ChildReturned(
            InsertRecursive(Route(m, page_num, key),
                DeserializeInternal(m.bufs[1]).children_[
                    ChildIndex(DeserializeInternal(m.bufs[1]), key) + 1],
                key, value, path \cup {page_num}),
            page_num, DeserializeInternal(m.bufs[1]), m.bufs[1])

InsertRecursive(m, page_num, key, value, path) ==
    IF page_num \in path
    THEN [m EXCEPT !.crashed = TRUE]
    ELSE PageRead(Dispatch(ReadPage(m, page_num), page_num), page_num, key, value, path)

SetRoot(m, p) ==
    [m EXCEPT !.root_page = p, !.log = Append(@, [op |-> "setroot", page |-> p])]

Return(m, v) == [m EXCEPT !.ret = v]

\* Insert, empty tree, after AllocatePage returned m.new_page
InsertEmpty(m, root) ==
    Return(WritePage(SerializeLeaf(SetRoot(m, m.new_page), root, <<>>, 1),
                     m.new_page, 1, root),
           "true")

GrowRoot_InPlace(m, new_root) ==
    Return(SetRoot(WritePage(SerializeInternal(m, new_root, <<>>, 1), m.root_page, 1, new_root),
                   m.root_page),
           "true")

\* Insert, root growth, after AllocatePage returned m.new_page
GrowRoot(m, new_root) ==
    Return(SetRoot(WritePage(SerializeInternal(m, new_root, <<>>, 1), m.new_page, 1, new_root),
                   m.new_page),
           "true")

Descended_PromotedFirst(m) ==
    IF m.crashed THEN m
    ELSE IF m.promoted.has_value
    THEN GrowRoot(Allocate(m),
                  [InternalNode(TRUE) EXCEPT !.keys_ = <<m.promoted.first>>,
                                             !.children_ = <<m.promoted.second, m.root_page>>])
    ELSE Return(m, "true")

\* Insert after the top-level InsertRecursive returned in m
Descended(m) ==
    IF m.crashed THEN m
    ELSE IF m.promoted.has_value
    THEN GrowRoot(Allocate(m),
                  [InternalNode(TRUE) EXCEPT !.keys_ = <<m.promoted.first>>,
                                             !.children_ = <<m.root_page, m.promoted.second>>])
    ELSE Return(m, "true")

\* BPlusTree::Insert
InsertCall(m, key, value) ==
    IF m.root_page = INVALID_PAGE
    THEN InsertEmpty(Allocate(m),
                     [LeafNode EXCEPT !.keys_ = <<key>>, !.values_ = << <<value>> >>])
    ELSE Descended(InsertRecursive(m, m.root_page, key, value, {}))

\* ----------------------------------------------------------------------
\* The SQL parser (namespace Query, parser.cc).  The Lexer's output is a
\* sequence of token kinds followed by End for ever; the text of a token is
\* identified with its position in the input.  Parser::error throws, so
\* every step of a parser whose err is set is skipped.  The DDL statements
\* (KwCreate, KwAlter, KwDrop) are not in the token alphabet of the
\* specifications below.
\* ----------------------------------------------------------------------
NoStmt == [kind |-> "None", table |-> 0, select_all |-> FALSE, columns |-> <<>>,
           values |-> <<>>, assignments |-> <<>>, where |-> <<>>]

\* Parser(sql): cur = lex.next()
Parser(toks) ==
    [toks |-> toks, i |-> 1, err |-> FALSE, msg |-> "", val |-> <<"none">>,
     ids |-> <<>>, exprs |-> <<>>, assigns |-> <<>>, stmt |-> NoStmt]

\* cur.kind
Cur(p) == IF p.i <= Len(p.toks) THEN p.toks[p.i] ELSE "End"

\* cur.text, cur.i64, cur.f64
Text(p) == p.i

\* cur = lex.next()
Advance(p) == [p EXCEPT !.i = @ + 1]

error(p, msg) == IF p.err THEN p ELSE [p EXCEPT !.err = TRUE, !.msg = msg]

consume(p, k, what) ==
    IF p.err THEN p
    ELSE IF Cur(p) # k THEN error(p, "expected " \o what)
    ELSE Advance(p)

accept(p, k) == IF ~p.err /\ Cur(p) = k THEN Advance(p) ELSE p

precOf_OrTighter(k) ==
    CASE k = "KwOr" -> 2
      [] k = "KwAnd" -> 1
      [] k \in {"Eq", "Ne", "Lt", "Le", "Gt", "Ge"} -> 3
      [] OTHER -> 0

precOf(k) ==
    CASE k = "KwOr" -> 1
      [] k = "KwAnd" -> 2
      [] k \in {"Eq", "Ne", "Lt", "Le", "Gt", "Ge"} -> 3
      [] OTHER -> 0

IsBinaryOp(k) == k \in {"Eq", "Ne", "Lt", "Le", "Gt", "Ge", "KwAnd", "KwOr"}

binOpFrom(k) ==
    CASE k = "KwAnd" -> "And"
      [] k = "KwOr" -> "Or"
      [] OTHER -> k

Identifier(text) == <<"id", text>>
Literal(v) == <<"lit", v>>
Unary(op, e) == <<"un", op, e>>
Binary(op, l, r) == <<"bin", op, l, r>>

Returning(p, e) == IF p.err THEN p ELSE [p EXCEPT !.val = e]

\* std::make_unique<Unary>(op, parseUnary()) once parseUnary() has returned as q
WrapUnary(q, op) == Returning(q, Unary(op, q.val))

RECURSIVE parsePrimary(_), parseUnary(_), parseBinRHS(_, _, _), parseExpr(_)

parsePrimary(p) ==
    IF p.err THEN p
    ELSE IF Cur(p) = "Ident" THEN Advance(Returning(p, Identifier(Text(p))))
    ELSE IF Cur(p) \in {"Int", "Float", "Str"} THEN Advance(Returning(p, Literal(Text(p))))
    ELSE IF Cur(p) = "LParen" THEN consume(parseExpr(Advance(p)), "RParen", ")")
    ELSE error(p, "expected primary expression")

parseUnary(p) ==
    IF p.err THEN p
    ELSE IF Cur(p) = "KwNot" THEN WrapUnary(parseUnary(Advance(p)), "Not")
    ELSE IF Cur(p) = "Minus" THEN WrapUnary(parseUnary(Advance(p)), "Minus")
    ELSE IF Cur(p) = "Plus" THEN WrapUnary(parseUnary(Advance(p)), "Plus")
    ELSE parsePrimary(p)

\* parseBinRHS after auto rhs = parseUnary() returned as q: the operator that
\* follows binds tighter than prec, so it takes rhs first
BinTighter(q, prec) ==
    IF q.err THEN q
    ELSE IF precOf(Cur(q)) > prec THEN parseBinRHS(q, prec + 1, q.val)
    ELSE q

\* lhs = Binary(binOpFrom(opTok), lhs, rhs) and the next turn of the loop
BinFold(q, minPrec, opTok, lhs) ==
    IF q.err THEN q
    ELSE IF ~IsBinaryOp(opTok) THEN error(q, "Unexpected binary operator")
    ELSE parseBinRHS(q, minPrec, Binary(binOpFrom(opTok), lhs, q.val))

parseBinRHS(p, minPrec, lhs) ==
    IF p.err THEN p
    ELSE IF precOf(Cur(p)) < minPrec THEN Returning(p, lhs)
    ELSE BinFold(BinTighter(parseUnary(Advance(p)), precOf(Cur(p))), minPrec, Cur(p), lhs)

\* return parseBinRHS(1, std::move(lhs)) with lhs the value q returned
ExprFrom(q) == IF q.err THEN q ELSE parseBinRHS(q, 1, q.val)

parseExpr(p) == ExprFrom(parseUnary(p))

PushIdent(p) == Advance([p EXCEPT !.ids = Append(@, Text(p))])

RECURSIVE IdentListLoop(_)
IdentListLoop(p) ==
    IF Cur(p) = "Comma"
    THEN IF Cur(Advance(p)) # "Ident" THEN error(Advance(p), "expected identifier after ','")
         ELSE IdentListLoop(PushIdent(Advance(p)))
    ELSE p

parseIdentList(p) ==
    IF p.err THEN p
    ELSE IF Cur(p) # "Ident" THEN error(p, "expected identifier")
    ELSE IdentListLoop(PushIdent([p EXCEPT !.ids = <<>>]))

\* out.push_back(parseExpr()) once parseExpr() has returned as q
PushExpr(q) == IF q.err THEN q ELSE [q EXCEPT !.exprs = Append(@, q.val)]

RECURSIVE ExprListLoop(_)
ExprListLoop(q) ==
    IF q.err THEN q
    ELSE IF Cur(q) = "Comma" THEN ExprListLoop(PushExpr(parseExpr(Advance(q))))
    ELSE q

parseExprList(p) ==
    IF p.err THEN p
    ELSE ExprListLoop(PushExpr(parseExpr([p EXCEPT !.exprs = <<>>])))

\* sel->where = std::move(*w) once parseExpr() has returned as q
SetWhere(q) == IF q.err THEN q ELSE [q EXCEPT !.stmt.where = <<q.val>>]

parseOptWhere(p) ==
    IF p.err THEN p
    ELSE IF Cur(p) = "KwWhere" THEN SetWhere(parseExpr(Advance(p)))
    ELSE p

\* sel->columns = parseIdentList() unless a Star is accepted
SelectList(p) ==
    IF p.err THEN p
    ELSE IF Cur(p) = "Star" THEN [Advance(p) EXCEPT !.stmt.select_all = TRUE]
    ELSE (LET q == parseIdentList(p) IN IF q.err THEN q ELSE [q EXCEPT !.stmt.columns = q.ids])

\* the table name: cur must be an Ident
TableName(p, after) ==
    IF p.err THEN p
    ELSE IF Cur(p) # "Ident" THEN error(p, "expected table name after " \o after)
    ELSE Advance([p EXCEPT !.stmt.table = Text(p)])

parseSelect(p) ==
    parseOptWhere(
        TableName(
            consume(
                SelectList(
                    consume([p EXCEPT !.stmt = [NoStmt EXCEPT !.kind = "Select"]],
                            "KwSelect", "SELECT")),
                "KwFrom", "FROM"),
            "FROM"))

\* the optional column list of INSERT
InsertColumns(p) ==
    IF p.err THEN p
    ELSE IF Cur(p) = "LParen"
    THEN (LET q == consume(parseIdentList(Advance(p)), "RParen", ")")
          IN IF q.err THEN q ELSE [q EXCEPT !.stmt.columns = q.ids])
    ELSE p

SetValues(q) == IF q.err THEN q ELSE [q EXCEPT !.stmt.values = q.exprs]

parseInsert(p) ==
    consume(
        SetValues(
            parseExprList(
                consume(
                    consume(
                        InsertColumns(
                            TableName(
                                consume(
                                    consume([p EXCEPT !.stmt = [NoStmt EXCEPT !.kind = "Insert"]],
                                            "KwInsert", "INSERT"),
                                    "KwInto", "INTO"),
                                "INTO")),
                        "KwValues", "VALUES"),
                    "LParen", "("))),
        "RParen", ")")

\* out.emplace_back(col, e) once parseExpr() has returned as q
PushAssign(q, col) == IF q.err THEN q ELSE [q EXCEPT !.assigns = Append(@, <<col, q.val>>)]

\* one "col = expr" of parseAssignments
Assignment(p) ==
    IF p.err THEN p
    ELSE IF Cur(p) # "Ident" THEN error(p, "expected column name in SET")
    ELSE PushAssign(parseExpr(consume(Advance(p), "Eq", "=")), Text(p))

RECURSIVE AssignLoop(_)
AssignLoop(q) ==
    IF q.err THEN q
    ELSE IF Cur(q) = "Comma" THEN AssignLoop(Assignment(Advance(q)))
    ELSE q

parseAssignments(p) ==
    IF p.err THEN p
    ELSE AssignLoop(Assignment([p EXCEPT !.assigns = <<>>]))

SetAssignments(q) == IF q.err THEN q ELSE [q EXCEPT !.stmt.assignments = q.assigns]

parseUpdate(p) ==
    parseOptWhere(
        SetAssignments(
            parseAssignments(
                consume(
                    TableName(
                        consume([p EXCEPT !.stmt = [NoStmt EXCEPT !.kind = "Update"]],
                                "KwUpdate", "UPDATE"),
                        "UPDATE"),
                    "KwSet", "SET"))))

parseStatement(p) ==
    IF Cur(p) = "KwSelect" THEN parseSelect(p)
    ELSE IF Cur(p) = "KwInsert" THEN parseInsert(p)
    ELSE IF Cur(p) = "KwUpdate" THEN parseUpdate(p)
    ELSE error(p, "expected SELECT, INSERT, UPDATE, CREATE, ALTER, or DROP")

\* Parser(sql).parseStatement(): the statement returned, or the runtime_error
\* thrown; pos is the position of cur when the call ended
Parse(toks) ==
    LET p == parseStatement(Parser(toks))
    IN [ok |-> ~p.err, msg |-> p.msg, stmt |-> IF p.err THEN NoStmt ELSE p.stmt, pos |-> p.i]

\* ----------------------------------------------------------------------
\* State
\* ----------------------------------------------------------------------
VARIABLES
    file,         \* the backing file: page p is file[p + 1]
    good,         \* the fstream's good()
    root_page_,
    next_page_,
    order_,
    value_size,   \* sizeof(Value)
    status,       \* "ok", "crashed" (process ended) or "undefined" (after a silent overrun)
    ret,          \* what the last Insert returned: "true", or "none" when it did not return
    amap,         \* key -> the values inserted under it, in call order
    ninserts,     \* number of Insert calls made
    last,         \* the arguments of the last Insert call
    allocated,    \* every page number AllocatePage has returned, in order
    nsplits,      \* number of SplitLeaf and SplitInternal calls made
    prev,         \* file, root_page_, next_page_ and nsplits as the last Insert call found them
    trace,        \* the operations of the last Insert call, in program order
    input,        \* the token kinds the Lexer yields for the text handed to Parser
    parsed,       \* what parseStatement made of input
    nedits        \* number of changes made to input

vars == <<file, good, root_page_, next_page_, order_, value_size, status, ret,
          amap, ninserts, last, allocated, nsplits, prev, trace, input, parsed, nedits>>

RECURSIVE AllocsOf(_)
AllocsOf(log) ==
    IF log = <<>> THEN <<>>
    ELSE (IF Head(log).op = "alloc" THEN <<Head(log).page>> ELSE <<>>) \o AllocsOf(Tail(log))

RECURSIVE SplitsOf(_)
SplitsOf(log) ==
    IF log = <<>> THEN 0
    ELSE (IF Head(log).op = "split" THEN 1 ELSE 0) + SplitsOf(Tail(log))

\* After BPlusTree(filename, order) on a fresh file
InitWith(orders, vsize) ==
    /\ file = <<>>
    /\ good = TRUE
    /\ root_page_ = INVALID_PAGE
    /\ next_page_ = 1
    /\ order_ \in orders
    /\ value_size = vsize
    /\ status = "ok"
    /\ ret = "none"
    /\ amap = [k \in AllKeys |-> <<>>]
    /\ ninserts = 0
    /\ last = [key |-> 0, value |-> 0]
    /\ allocated = <<>>
    /\ nsplits = 0
    /\ prev = [file |-> <<>>, root_page |-> INVALID_PAGE, next_page |-> 1, nsplits |-> 0]
    /\ trace = <<>>
    /\ input = <<>>
    /\ parsed = Parse(input)
    /\ nedits = 0

Init == InitWith(Orders, INT_VALUE_SIZE)

\* The state after the call ended as m.  A process that ended keeps only its file.
Commit(m, key, value) ==
    /\ file' = m.file
    /\ good' = m.good
    /\ status' = IF m.crashed \/ m.dead THEN "crashed"
                 ELSE IF m.overrun THEN "undefined" ELSE "ok"
    /\ root_page_' = IF m.dead THEN root_page_ ELSE m.root_page
    /\ next_page_' = IF m.dead THEN next_page_ ELSE m.next_page
    /\ ret' = IF m.dead THEN "none" ELSE m.ret
    /\ amap' = [amap EXCEPT ![key] = Append(@, value)]
    /\ ninserts' = ninserts + 1
    /\ last' = [key |-> key, value |-> value]
    /\ allocated' = allocated \o AllocsOf(m.log)
    /\ nsplits' = nsplits + SplitsOf(m.log)
    /\ prev' = [file |-> file, root_page |-> root_page_, next_page |-> next_page_,
                nsplits |-> nsplits]
    /\ trace' = m.log
    /\ UNCHANGED <<order_, value_size, input, parsed, nedits>>

Run(key, value, fail_in, ub) ==
    InsertCall(Machine(file, good, root_page_, next_page_, order_, value_size, fail_in, ub),
               key, value)

\* The outcome ub of a store past the end of a buffer is a choice only when
\* such a store happens.
Outcome(m, key, value) ==
    /\ m.ub = "abort" => m.overrun
    /\ Commit(m, key, value)

\* One call tree->Insert(key, value); the medium's fail_in-th operation fails.
Insert(key, value, fail_in) ==
    /\ status = "ok"
    /\ \E ub \in {"silent", "abort"} : Outcome(Run(key, value, fail_in, ub), key, value)

\* Values are opaque to the engine (it only copies them), so each call passes
\* its own sequence number: every stored value then names the call it came from.
Next ==
    /\ ninserts < MaxInserts
    /\ \E key \in Keys : Insert(key, ninserts + 1, 0)

Spec == Init /\ [][Next]_vars

\* BPlusTree<int, V> with sizeof(V) = WideValueSize: a few values fill a page.
InitWide == InitWith(Orders, WideValueSize)

NextWide ==
    /\ ninserts < MaxWideInserts
    /\ \E key \in 1..MaxWideKey : Insert(key, ninserts + 1, 0)

SpecWide == InitWide /\ [][NextWide]_vars

\* The page medium may fail: the fail_in-th operation of a call does (0: none).
NextFault ==
    /\ ninserts < MaxFaultInserts
    /\ \E key \in Keys, fail_in \in 0..MaxFailAt : Insert(key, ninserts + 1, fail_in)

SpecFault == Init /\ [][NextFault]_vars

\* The constructor stores whatever order it is given: the engine built with any
\* uint32_t order, the small ones included
AnyOrders == 0..MaxOrder

InitAnyOrder == InitWith(AnyOrders, INT_VALUE_SIZE)

SpecAnyOrder == InitAnyOrder /\ [][Next]_vars

\* Trees deep enough for internal nodes of every order to split: each call
\* inserts either a new largest key or key 1 again
NextDeep ==
    /\ ninserts < MaxDeepInserts
    /\ \E key \in {ninserts + 1, 1} : Insert(key, ninserts + 1, 0)

SpecDeep == Init /\ [][NextDeep]_vars

\* ----------------------------------------------------------------------
\* The parser's specifications: a Parser is constructed on the input and
\* parseStatement is called once; every step changes the input and parses
\* it again.  The tree is not touched.
\* ----------------------------------------------------------------------
TreeIdle ==
    UNCHANGED <<file, good, root_page_, next_page_, order_, value_size, status, ret,
                amap, ninserts, last, allocated, nsplits, prev, trace>>

InitParser(inputs) ==
    /\ file = <<>>
    /\ good = TRUE
    /\ root_page_ = INVALID_PAGE
    /\ next_page_ = 1
    /\ order_ = 3
    /\ value_size = INT_VALUE_SIZE
    /\ status = "ok"
    /\ ret = "none"
    /\ amap = [k \in AllKeys |-> <<>>]
    /\ ninserts = 0
    /\ last = [key |-> 0, value |-> 0]
    /\ allocated = <<>>
    /\ nsplits = 0
    /\ prev = [file |-> <<>>, root_page |-> INVALID_PAGE, next_page |-> 1, nsplits |-> 0]
    /\ trace = <<>>
    /\ input \in inputs
    /\ parsed = Parse(input)
    /\ nedits = 0

\* "SELECT * FROM t WHERE": what follows is parsed by parseExpr
WherePrefix == <<"KwSelect", "Star", "KwFrom", "Ident", "KwWhere">>

\* the tokens after the WHERE
ExprTokens(toks) == SubSeq(toks, Len(WherePrefix) + 1, Len(toks))

RECURSIVE Depth(_)
Depth(toks) ==
    IF toks = <<>> THEN 0
    ELSE Depth(SubSeq(toks, 1, Len(toks) - 1))
         + (IF toks[Len(toks)] = "LParen" THEN 1 ELSE IF toks[Len(toks)] = "RParen" THEN -1 ELSE 0)

\* an operand must come next
AtOperand(toks) == toks[Len(toks)] \in {"KwWhere", "LParen", "KwOr", "KwAnd", "Eq", "Lt"}

NextKinds(toks) ==
    IF AtOperand(toks) THEN {"Ident", "LParen"}
    ELSE {"KwOr", "KwAnd", "Eq", "Lt"} \cup (IF Depth(toks) > 0 THEN {"RParen"} ELSE {})

\* the expression after the WHERE is typed one token at a time, every prefix
\* being one of a well-formed expression over identifiers, comparisons, AND,
\* OR and parentheses
TypeToken(k) ==
    /\ Len(input) < Len(WherePrefix) + MaxExprTokens
    /\ k \in NextKinds(input)
    /\ input' = Append(input, k)
    /\ parsed' = Parse(input')
    /\ UNCHANGED nedits
    /\ TreeIdle

NextExpr == \E k \in {"Ident", "LParen", "RParen", "KwOr", "KwAnd", "Eq", "Lt"} : TypeToken(k)

SpecExpr == InitParser({WherePrefix}) /\ [][NextExpr]_vars

\* Statements of the three kinds, as the tests write them:
\*   SELECT * FROM t WHERE a          SELECT a, b FROM t
\*   INSERT INTO t (a) VALUES (1)     UPDATE t SET a = 'x' WHERE b = 1
Statements ==
    { <<"KwSelect", "Star", "KwFrom", "Ident", "KwWhere", "Ident">>,
      <<"KwSelect", "Ident", "Comma", "Ident", "KwFrom", "Ident">>,
      <<"KwInsert", "KwInto", "Ident", "LParen", "Ident", "RParen", "KwValues",
        "LParen", "Int", "RParen">>,
      <<"KwUpdate", "Ident", "KwSet", "Ident", "Eq", "Str", "KwWhere", "Ident", "Eq", "Int">> }

\* the input loses its i-th token
DropToken(i) ==
    /\ nedits < MaxEdits
    /\ i \in 1..Len(input)
    /\ input' = SubSeq(input, 1, i - 1) \o SubSeq(input, i + 1, Len(input))
    /\ parsed' = Parse(input')
    /\ nedits' = nedits + 1
    /\ TreeIdle

\* the i-th token and the next change places
SwapTokens(i) ==
    /\ nedits < MaxEdits
    /\ i \in 1..(Len(input) - 1)
    /\ input[i] # input[i + 1]
    /\ input' = [input EXCEPT ![i] = input[i + 1], ![i + 1] = input[i]]
    /\ parsed' = Parse(input')
    /\ nedits' = nedits + 1
    /\ TreeIdle

NextStmt ==
    \/ \E i \in 1..Len(input) : DropToken(i)
    \/ \E i \in 1..Len(input) : SwapTokens(i)

SpecStmt == InitParser(Statements) /\ [][NextStmt]_vars

\* ----------------------------------------------------------------------
\* Reading a persisted tree back (DebugReadPage, DebugDeserializeLeaf, ...)
\* from a file f
\* ----------------------------------------------------------------------
PageIn(f, p) == IF p < Len(f) THEN f[p + 1] ELSE <<>>

TagIn(f, p) == ByteAt(PageIn(f, p), 0)

LeafIn(f, p) == DeserializeLeaf(PageIn(f, p), value_size)

InternalIn(f, p) == DeserializeInternal(PageIn(f, p))

\* The pages f holds a node for
NodePagesIn(f) == {p \in 1..(Len(f) - 1) : TagIn(f, p) # NodeType_Invalid}

\* The leaf pages below page p, left to right (fuel bounds the depth)
RECURSIVE LeafPagesUnder(_, _, _)
RECURSIVE LeafPagesUnderAll(_, _, _)
LeafPagesUnder(f, p, fuel) ==
    IF fuel = 0 \/ TagIn(f, p) = NodeType_Invalid THEN <<>>
    ELSE IF TagIn(f, p) = NodeType_Leaf THEN <<p>>
    ELSE LeafPagesUnderAll(f, InternalIn(f, p).children_, fuel - 1)

LeafPagesUnderAll(f, children, fuel) ==
    IF children = <<>> THEN <<>>
    ELSE LeafPagesUnder(f, Head(children), fuel) \o LeafPagesUnderAll(f, Tail(children), fuel)

\* The leaves of the tree rooted at root, left to right
TreeLeavesIn(f, root) ==
    IF root = INVALID_PAGE THEN <<>> ELSE LeafPagesUnder(f, root, Len(f) + 1)

\* The (key, value sequence) entries of a decoded leaf, in order
RECURSIVE NodeEntries(_, _)
NodeEntries(node, i) ==
    IF i > Len(node.keys_) THEN <<>>
    ELSE <<[key |-> node.keys_[i], values |-> node.values_[i]]>> \o NodeEntries(node, i + 1)

RECURSIVE EntriesOf(_, _)
EntriesOf(f, leaves) ==
    IF leaves = <<>> THEN <<>>
    ELSE NodeEntries(LeafIn(f, Head(leaves)), 1) \o EntriesOf(f, Tail(leaves))

\* What a walk over the leaves, in order, yields
WalkIn(f, root) == EntriesOf(f, TreeLeavesIn(f, root))

\* The keys stored in the leaves below page p
EntryKeys(w) == {w[i].key : i \in 1..Len(w)}

KeysUnderIn(f, p) == EntryKeys(EntriesOf(f, LeafPagesUnder(f, p, Len(f) + 1)))

\* The number of key entries of every leaf page
LeafKeyCountsIn(f) ==
    [p \in {q \in NodePagesIn(f) : TagIn(f, q) = NodeType_Leaf} |-> Len(LeafIn(f, p).keys_)]

\* The same, of the current file and root
PageOf(p) == PageIn(file, p)
TagOf(p) == TagIn(file, p)
LeafAt(p) == LeafIn(file, p)
InternalAt(p) == InternalIn(file, p)
NodePages == NodePagesIn(file)
Walk == WalkIn(file, root_page_)
KeysUnder(p) == KeysUnderIn(file, p)

StrictlyIncreasing(s) == \A i \in 1..(Len(s) - 1) : s[i] < s[i + 1]

InsertedKeys == {k \in AllKeys : amap[k] # <<>>}

AllDistinct == \A k \in AllKeys : Len(amap[k]) <= 1

\* The ascending enumeration of a finite set of integers
RECURSIVE Ascending(_)
Ascending(S) ==
    IF S = {} THEN <<>>
    ELSE LET lo == CHOOSE x \in S : \A y \in S : x <= y
         IN <<lo>> \o Ascending(S \ {lo})

\* ----------------------------------------------------------------------
\* Claims
\* ----------------------------------------------------------------------

\* C1: after any sequence of Insert calls on an initially empty tree, walking
\* the leaves in order yields exactly the abstract multimap built by the same
\* calls: every inserted key occurs exactly once, no other key occurs, and each
\* key carries the values inserted under it, in insertion order.
C1_WalkIsMultimap ==
    \A w \in {Walk} :
        /\ \A k \in InsertedKeys : Cardinality({i \in 1..Len(w) : w[i].key = k}) = 1
        /\ \A i \in 1..Len(w) :
              /\ w[i].key \in InsertedKeys
              /\ w[i].values = amap[w[i].key]

\* C1 witness: a tree that has split at least twice and holds a key with
\* several values
C1_Witness ==
    /\ status = "ok"
    /\ nsplits >= 2
    /\ \E k \in AllKeys : Len(amap[k]) >= 2
    /\ Len(Walk) >= 3

\* C2: every persisted leaf's keys and every persisted internal node's keys
\* are strictly increasing, and for every internal node and index i the keys
\* below children[i] are < keys[i] and the keys below children[i+1] are >= keys[i].
C2_Sorted ==
    \A p \in NodePages :
        IF TagOf(p) = NodeType_Leaf
        THEN StrictlyIncreasing(LeafAt(p).keys_)
        ELSE /\ StrictlyIncreasing(InternalAt(p).keys_)
             /\ \A i \in 1..Len(InternalAt(p).keys_) :
                   /\ \A k \in KeysUnder(InternalAt(p).children_[i]) :
                         k < InternalAt(p).keys_[i]
                   /\ \A k \in KeysUnder(InternalAt(p).children_[i + 1]) :
                         k >= InternalAt(p).keys_[i]

\* C2 witness: a tree of height 3 (an internal node below the root)
C2_Witness ==
    /\ status = "ok"
    /\ root_page_ # INVALID_PAGE
    /\ TagOf(root_page_) = NodeType_Internal
    /\ \E i \in 1..Len(InternalAt(root_page_).children_) :
          TagOf(InternalAt(root_page_).children_[i]) = NodeType_Internal

\* C3: n distinct keys, 1 <= n <= order-1, inserted in any order leave
\* root_page naming one Leaf page (tag 1) with exactly those keys ascending,
\* values[i] the singleton of the value inserted with keys[i], next_leaf 0.
C3_NoSplitRoundTrip ==
    (AllDistinct /\ 1 <= ninserts /\ ninserts <= order_ - 1) =>
        /\ root_page_ # INVALID_PAGE
        /\ TagOf(root_page_) = NodeType_Leaf
        /\ LeafAt(root_page_).keys_ = Ascending(InsertedKeys)
        /\ Len(LeafAt(root_page_).values_) = Len(LeafAt(root_page_).keys_)
        /\ \A i \in 1..Len(LeafAt(root_page_).keys_) :
              LeafAt(root_page_).values_[i] = amap[LeafAt(root_page_).keys_[i]]
        /\ \A k \in InsertedKeys : Len(amap[k]) = 1
        /\ LeafAt(root_page_).next_leaf_page_ = 0

\* C3 witness: order-1 distinct keys, the last one inserted not the largest
C3_Witness ==
    /\ status = "ok" /\ AllDistinct /\ ninserts = order_ - 1
    /\ \E k \in InsertedKeys : k > last.key

\* C4: exactly `order` distinct keys cause exactly one split: the root is an
\* Internal node with 1 separator and 2 children, both leaves, the left one
\* linked to the right one and the right one's next_leaf 0.
C4_OneSplit ==
    (AllDistinct /\ ninserts = order_) =>
        /\ nsplits = 1
        /\ TagOf(root_page_) = NodeType_Internal
        /\ Len(InternalAt(root_page_).keys_) = 1
        /\ Len(InternalAt(root_page_).children_) = 2
        /\ TagOf(InternalAt(root_page_).children_[1]) = NodeType_Leaf
        /\ TagOf(InternalAt(root_page_).children_[2]) = NodeType_Leaf
        /\ LeafAt(InternalAt(root_page_).children_[1]).next_leaf_page_
              = InternalAt(root_page_).children_[2]
        /\ LeafAt(InternalAt(root_page_).children_[2]).next_leaf_page_ = 0

\* C4 witness: `order` distinct keys, the last one inserted the smallest
C4_Witness ==
    /\ status = "ok" /\ AllDistinct /\ ninserts = order_
    /\ \A k \in InsertedKeys : last.key <= k

\* The value sequence the walk w holds under key k (empty if none)
ValuesIn(w, k) ==
    IF \E i \in 1..Len(w) : w[i].key = k
    THEN w[CHOOSE i \in 1..Len(w) : w[i].key = k].values
    ELSE <<>>

\* C5: Insert(k, v) of a key already stored, whatever leaf it lives in,
\* appends v to the end of k's value sequence, leaves the number of key
\* entries of every leaf unchanged, and causes no split and no allocation.
C5_DuplicateKeyAppends ==
    (ninserts >= 1 /\ Len(amap[last.key]) >= 2) =>
        /\ \A w \in {WalkIn(prev.file, prev.root_page)} : \A w2 \in {Walk} :
              ValuesIn(w2, last.key) = Append(ValuesIn(w, last.key), last.value)
        /\ LeafKeyCountsIn(file) = LeafKeyCountsIn(prev.file)
        /\ nsplits = prev.nsplits
        /\ next_page_ = prev.next_page
        /\ \A i \in 1..Len(trace) : trace[i].op \notin {"alloc", "split"}

\* C5 witness: the key inserted last was already stored, equals a separator
\* of the root and lives in a leaf created by a split
C5_Witness ==
    /\ status = "ok"
    /\ ninserts >= 1
    /\ Len(amap[last.key]) >= 2
    /\ TagOf(root_page_) = NodeType_Internal
    /\ \E i \in 1..Len(InternalAt(root_page_).keys_) : InternalAt(root_page_).keys_[i] = last.key

\* C6: the page numbers AllocatePage returns are strictly increasing, start
\* at 1, are never 0, and none is returned twice.
C6_MonotonicAllocation ==
    /\ allocated # <<>> => allocated[1] = 1
    /\ \A i \in 1..Len(allocated) : allocated[i] # 0
    /\ \A i, j \in 1..Len(allocated) : i < j => allocated[i] < allocated[j]

\* C6 witness: allocations by the first insert, by leaf and internal splits
\* and by root growth
C6_Witness == Len(allocated) >= 6 /\ status = "ok"

\* The bytes the codec stores for a node value of either kind
IsInternalNode(node) == "is_root_" \in DOMAIN node

NodeBytes(node) ==
    IF IsInternalNode(node) THEN InternalBytes(node) ELSE LeafBytes(node, value_size)

Fits(node) == Len(NodeBytes(node)) <= PAGE_SIZE

\* The page writes of the last Insert call
Writes == {i \in 1..Len(trace) : trace[i].op = "write"}

\* C7 (as amended): for every node the engine persists whose serialized size
\* is at most the page size, decoding the page written gives back a node of the
\* same kind with the same keys, values and next_leaf (leaf) or the same keys
\* and children (internal); is_root is not encoded: the decoded internal node
\* has is_root false, also for the new root that was created with is_root set.
C7_RoundTripExceptIsRoot ==
    \A i \in Writes :
        Fits(trace[i].node) =>
            IF IsInternalNode(trace[i].node)
            THEN /\ ~IsLeaf(trace[i].bytes)
                 /\ ByteAt(trace[i].bytes, 0) = NodeType_Internal
                 /\ DeserializeInternal(trace[i].bytes).keys_ = trace[i].node.keys_
                 /\ DeserializeInternal(trace[i].bytes).children_ = trace[i].node.children_
                 /\ DeserializeInternal(trace[i].bytes).is_root_ = FALSE
            ELSE /\ IsLeaf(trace[i].bytes)
                 /\ DeserializeLeaf(trace[i].bytes, value_size) = trace[i].node

\* C7 as claimed: decoding gives back the node in every field, is_root included.
C7_RoundTripEveryField ==
    \A i \in Writes :
        Fits(trace[i].node) =>
            IF IsInternalNode(trace[i].node)
            THEN DeserializeInternal(trace[i].bytes) = trace[i].node
            ELSE DeserializeLeaf(trace[i].bytes, value_size) = trace[i].node

\* C7 witness: an Insert that split a leaf with several values and grew the
\* root: it wrote a leaf linked to a next leaf and a new root with is_root set
C7_Witness ==
    /\ \E i \in Writes : IsInternalNode(trace[i].node) /\ trace[i].node.is_root_
                         /\ Fits(trace[i].node)
    /\ \E i \in Writes : ~IsInternalNode(trace[i].node) /\ Fits(trace[i].node)
                         /\ trace[i].node.next_leaf_page_ # 0
                         /\ \E j \in 1..Len(trace[i].node.values_) :
                               Len(trace[i].node.values_[j]) >= 2

\* C8: encoding a node whose serialized size exceeds the page size fails with
\* an explicit error and stores nothing past the end of the page buffer; no
\* Insert persists a truncated or overrun page.
C8_EncodeOverflowDetected ==
    \A i \in 1..Len(trace) :
        /\ trace[i].op # "overrun"
        /\ trace[i].op = "write" => Fits(trace[i].node)

\* C9: if a page read or page write fails during an Insert, the Insert does
\* not report success.
C9_IOFailurePropagated ==
    (\E i \in 1..Len(trace) : trace[i].op \in {"read", "write"} /\ ~trace[i].ok)
        => ret # "true"

\* C10: a page read by the descent whose tag byte is neither 1 nor 2 is never
\* interpreted as a Leaf or as an Internal node, and the Insert fails.
C10_BadTagRejected ==
    \A i \in 1..Len(trace) :
        (trace[i].op = "decode" /\ trace[i].tag \notin {NodeType_Leaf, NodeType_Internal})
            => /\ trace[i].as \notin {"leaf", "internal"}
               /\ ret # "true"

\* The node values the last Insert call wrote, by kind
LeafWrites == {i \in Writes : ~IsInternalNode(trace[i].node)}
InternalWrites == {i \in Writes : IsInternalNode(trace[i].node)}

\* C11: after every completed Insert, every persisted leaf has as many value
\* sequences as keys and at most order-1 keys, and every persisted internal
\* node has one child more than keys and at most order children: this holds of
\* every node value the call handed to WritePage and of every page of the file.
C11_NodeSizes ==
    /\ \A i \in LeafWrites :
          /\ Len(trace[i].node.keys_) = Len(trace[i].node.values_)
          /\ Len(trace[i].node.keys_) <= order_ - 1
    /\ \A i \in InternalWrites :
          /\ Len(trace[i].node.children_) = Len(trace[i].node.keys_) + 1
          /\ Len(trace[i].node.children_) <= order_
    /\ \A p \in NodePages :
          IF TagOf(p) = NodeType_Leaf
          THEN /\ Len(LeafAt(p).keys_) = Len(LeafAt(p).values_)
               /\ Len(LeafAt(p).keys_) <= order_ - 1
          ELSE /\ Len(InternalAt(p).children_) = Len(InternalAt(p).keys_) + 1
               /\ Len(InternalAt(p).children_) <= order_

\* C11 witness: the last Insert split a leaf and an internal node, and some
\* leaf of the file is full (order-1 keys)
C11_Witness ==
    /\ \E i \in 1..Len(trace) : trace[i].op = "split" /\ trace[i].kind = "leaf"
    /\ \E i \in 1..Len(trace) : trace[i].op = "split" /\ trace[i].kind = "internal"
    /\ \E p \in NodePages : TagOf(p) = NodeType_Leaf /\ Len(LeafAt(p).keys_) = order_ - 1

\* The leftmost leaf below page p: the descent through children[0]
RECURSIVE LeftmostLeafIn(_, _, _)
LeftmostLeafIn(f, p, fuel) ==
    IF fuel = 0 \/ TagIn(f, p) # NodeType_Internal THEN p
    ELSE LeftmostLeafIn(f, InternalIn(f, p).children_[1], fuel - 1)

\* The pages visited from leaf page p on by following next_leaf until 0
RECURSIVE ChainIn(_, _, _)
ChainIn(f, p, fuel) ==
    IF fuel = 0 \/ p = 0 THEN <<>>
    ELSE <<p>> \o ChainIn(f, LeafIn(f, p).next_leaf_page_, fuel - 1)

LeafChain == ChainIn(file, LeftmostLeafIn(file, root_page_, Len(file) + 1), Len(file) + 1)

TreeLeaves == TreeLeavesIn(file, root_page_)

\* C12: on a non-empty tree, following next_leaf from the leftmost leaf visits
\* every leaf of the tree exactly once, in ascending key order (every key of a
\* leaf is smaller than every key of its next leaf), and ends at the unique
\* leaf whose next_leaf is 0: no cycle, no leaf skipped.
C12_LeafChain ==
    root_page_ # INVALID_PAGE =>
        \A c \in {LeafChain} : \A t \in {TreeLeaves} :
            /\ c = t
            /\ \A i, j \in 1..Len(c) : i # j => c[i] # c[j]
            /\ \A i \in 1..(Len(c) - 1) :
                  \A k1 \in EntryKeys(NodeEntries(LeafAt(c[i]), 1)) :
                      \A k2 \in EntryKeys(NodeEntries(LeafAt(c[i + 1]), 1)) : k1 < k2
            /\ Len(c) >= 1
            /\ LeafAt(c[Len(c)]).next_leaf_page_ = 0
            /\ Cardinality({i \in 1..Len(t) : LeafAt(t[i]).next_leaf_page_ = 0}) = 1

\* C12 witness: a tree of at least three leaves whose last Insert split a leaf
\* that was not the last of the chain
C12_Witness ==
    /\ root_page_ # INVALID_PAGE
    /\ Len(TreeLeaves) >= 3
    /\ \E i \in 1..Len(trace) :
          /\ trace[i].op = "split" /\ trace[i].kind = "leaf"
          /\ trace[i].node.next_leaf_page_ # 0

\* The internal pages of the tree rooted at root_page_
RECURSIVE InternalPagesUnder(_, _, _)
RECURSIVE InternalPagesUnderAll(_, _, _)
InternalPagesUnder(f, p, fuel) ==
    IF fuel = 0 \/ TagIn(f, p) # NodeType_Internal THEN {}
    ELSE {p} \cup InternalPagesUnderAll(f, InternalIn(f, p).children_, fuel - 1)

InternalPagesUnderAll(f, children, fuel) ==
    IF children = <<>> THEN {}
    ELSE InternalPagesUnder(f, Head(children), fuel)
            \cup InternalPagesUnderAll(f, Tail(children), fuel)

TreeInternals ==
    IF root_page_ = INVALID_PAGE THEN {}
    ELSE InternalPagesUnder(file, root_page_, Len(file) + 1)

\* C13: for every internal node of the tree and every index i, keys[i] equals
\* the smallest key stored in a leaf of the subtree rooted at children[i+1]
\* (so the separator is a key present in the tree), also after internal splits
\* and root growth.
C13_SeparatorIsMinOfRight ==
    \A p \in TreeInternals :
        \A i \in 1..Len(InternalAt(p).keys_) :
            \A ks \in {KeysUnder(InternalAt(p).children_[i + 1])} :
                /\ InternalAt(p).keys_[i] \in ks
                /\ \A k \in ks : InternalAt(p).keys_[i] <= k

\* C13 witness: a tree of height 3, whose root separator was promoted by an
\* internal split and whose right child is an internal node
C13_Witness ==
    /\ root_page_ # INVALID_PAGE
    /\ TagOf(root_page_) = NodeType_Internal
    /\ TagOf(InternalAt(root_page_).children_[2]) = NodeType_Internal
    /\ nsplits >= 4

\* The serialized size of a leaf: tag, next_leaf and key count (9 bytes), then
\* per key the key, a 4-byte value count and the values
RECURSIVE LeafEntriesSize(_, _, _)
LeafEntriesSize(node, i, vsize) ==
    IF i > Len(node.keys_) THEN 0
    ELSE KEY_SIZE + U32_SIZE + Len(node.values_[i]) * vsize
            + LeafEntriesSize(node, i + 1, vsize)

LeafSize(node, vsize) == 1 + U32_SIZE + U32_SIZE + LeafEntriesSize(node, 1, vsize)

\* The serialized size of an internal node: tag and key count (5 bytes), the
\* keys, 4 bytes per child
InternalSize(node) == 1 + U32_SIZE + Len(node.keys_) * KEY_SIZE + Len(node.children_) * U32_SIZE

\* C14: splitting keeps pages bounded: the serialized size of every node the
\* engine writes is at most the page size, also when many values are inserted
\* under the same key.
C14_PagesBounded ==
    /\ \A i \in LeafWrites : LeafSize(trace[i].node, value_size) <= PAGE_SIZE
    /\ \A i \in InternalWrites : InternalSize(trace[i].node) <= PAGE_SIZE

\* C15: the engine only ever operates with order >= 3: a construction with
\* order 0, 1 or 2 is refused, so no Insert runs against such an engine.
C15_OrderAtLeastThree == ninserts >= 1 => order_ >= 3

\* The SplitLeaf and SplitInternal calls of the last Insert, as positions of trace
LeafSplits == {i \in 1..Len(trace) : trace[i].op = "split" /\ trace[i].kind = "leaf"}
InternalSplits == {i \in 1..Len(trace) : trace[i].op = "split" /\ trace[i].kind = "internal"}

\* C18: a leaf split of an over-full leaf with n keys uses mid = floor(n/2):
\* the original page keeps keys[0..mid) with their value sequences, a freshly
\* allocated page receives keys[mid..n) with theirs, nothing is lost or
\* duplicated between the halves, and the promoted pair is (first key of the
\* right half, page of the new leaf), the key staying in the right leaf.
C18_LeafSplit ==
    \A i \in LeafSplits :
        LET n == trace[i].node
            len == Len(n.keys_)
            mid == len \div 2
        IN /\ i + 4 <= Len(trace)
           /\ trace[i + 1].op = "alloc"
           /\ trace[i + 1].page # trace[i].page
           /\ trace[i + 1].page >= prev.next_page
           /\ trace[i + 1].page \notin NodePagesIn(prev.file)
           /\ trace[i + 2].op = "write"
           /\ trace[i + 2].page = trace[i].page
           /\ trace[i + 2].node.keys_ = SubSeq(n.keys_, 1, mid)
           /\ trace[i + 2].node.values_ = SubSeq(n.values_, 1, mid)
           /\ trace[i + 3].op = "write"
           /\ trace[i + 3].page = trace[i + 1].page
           /\ trace[i + 3].node.keys_ = SubSeq(n.keys_, mid + 1, len)
           /\ trace[i + 3].node.values_ = SubSeq(n.values_, mid + 1, len)
           /\ trace[i + 2].node.keys_ \o trace[i + 3].node.keys_ = n.keys_
           /\ trace[i + 2].node.values_ \o trace[i + 3].node.values_ = n.values_
           /\ trace[i + 4].op = "promote"
           /\ trace[i + 4].key = n.keys_[mid + 1]
           /\ trace[i + 4].page = trace[i + 1].page
           /\ LeafAt(trace[i].page).keys_ = SubSeq(n.keys_, 1, mid)
           /\ LeafAt(trace[i].page).values_ = SubSeq(n.values_, 1, mid)
           /\ LeafAt(trace[i + 1].page).keys_ = SubSeq(n.keys_, mid + 1, len)
           /\ LeafAt(trace[i + 1].page).values_ = SubSeq(n.values_, mid + 1, len)
           /\ LeafAt(trace[i + 1].page).keys_[1] = trace[i + 4].key

\* C18 witness: a split of a leaf with an odd number of keys, one of them
\* with several values, in a tree that had split before
C18_Witness ==
    \E i \in LeafSplits :
        /\ Len(trace[i].node.keys_) = 3
        /\ \E j \in 1..3 : Len(trace[i].node.values_[j]) >= 2
        /\ prev.nsplits >= 1

\* C19: an internal split of an over-full internal node with n keys uses
\* mid = floor(n/2): keys[mid] is promoted and stored in neither half, the
\* original page keeps keys[0..mid) and children[0..mid], a freshly allocated
\* page receives keys[mid+1..n) and children[mid+1..n], every child pointer of
\* the node is in exactly one half and each half has one child more than keys.
C19_InternalSplit ==
    \A i \in InternalSplits :
        LET n == trace[i].node
            len == Len(n.keys_)
            mid == len \div 2
            left == trace[i + 2].node
            right == trace[i + 3].node
        IN /\ i + 4 <= Len(trace)
           /\ trace[i + 1].op = "alloc"
           /\ trace[i + 1].page # trace[i].page
           /\ trace[i + 1].page >= prev.next_page
           /\ trace[i + 1].page \notin NodePagesIn(prev.file)
           /\ trace[i + 2].op = "write"
           /\ trace[i + 2].page = trace[i].page
           /\ left.keys_ = SubSeq(n.keys_, 1, mid)
           /\ left.children_ = SubSeq(n.children_, 1, mid + 1)
           /\ trace[i + 3].op = "write"
           /\ trace[i + 3].page = trace[i + 1].page
           /\ right.keys_ = SubSeq(n.keys_, mid + 2, len)
           /\ right.children_ = SubSeq(n.children_, mid + 2, len + 1)
           /\ trace[i + 4].op = "promote"
           /\ trace[i + 4].key = n.keys_[mid + 1]
           /\ trace[i + 4].page = trace[i + 1].page
           /\ \A j \in 1..Len(left.keys_) : left.keys_[j] # trace[i + 4].key
           /\ \A j \in 1..Len(right.keys_) : right.keys_[j] # trace[i + 4].key
           /\ left.children_ \o right.children_ = n.children_
           /\ \A a, b \in 1..Len(n.children_) : a # b => n.children_[a] # n.children_[b]
           /\ Len(left.children_) = Len(left.keys_) + 1
           /\ Len(right.children_) = Len(right.keys_) + 1
           /\ InternalAt(trace[i].page).keys_ = left.keys_
           /\ InternalAt(trace[i].page).children_ = left.children_
           /\ InternalAt(trace[i + 1].page).keys_ = right.keys_
           /\ InternalAt(trace[i + 1].page).children_ = right.children_

\* C19 witness: a split of an internal node with an even number of keys (4)
C19_Witness == \E i \in InternalSplits : Len(trace[i].node.keys_) = 4

\* The internal nodes the descent of the last Insert went through, and the
\* leaf it reached, as positions of trace
Routes == {i \in 1..Len(trace) : trace[i].op = "route"}
LeafReached == {i \in 1..Len(trace) : trace[i].op = "decode" /\ trace[i].as = "leaf"}

\* C20: at an internal node the descent goes into children[i], i the number
\* of separators <= key: a key equal to separator keys[j] goes to
\* children[j+1], never to children[j], and the leaf reached is the one leaf
\* of the tree whose key range contains the key (smaller keys only in the
\* leaves before it, larger keys only in the leaves after it).
C20_UpperBoundRouting ==
    /\ \A r \in Routes :
          LET e == trace[r]
          IN /\ e.i = Cardinality({j \in 1..Len(e.node.keys_) : e.node.keys_[j] <= e.key})
             /\ e.child = e.node.children_[e.i + 1]
             /\ \A j \in 1..Len(e.node.keys_) :
                   e.node.keys_[j] = e.key =>
                       /\ e.child = e.node.children_[j + 1]
                       /\ e.child # e.node.children_[j]
             /\ \A j \in 1..Len(e.node.keys_) :
                   /\ j <= e.i => e.node.keys_[j] <= e.key
                   /\ j > e.i => e.key < e.node.keys_[j]
    /\ Routes # {} =>
          \A t \in {TreeLeavesIn(prev.file, prev.root_page)} :
              /\ Cardinality(LeafReached) = 1
              /\ \A d \in LeafReached :
                    \E x \in 1..Len(t) :
                       /\ t[x] = trace[d].page
                       /\ \A y \in 1..Len(t) : \A k \in KeysUnderIn(prev.file, t[y]) :
                             /\ y < x => k < last.key
                             /\ y > x => k > last.key

\* C20 witness: the key inserted equals the first of the two separators of a
\* root with three children, and is not the largest key of the tree
C20_Witness ==
    \E r \in Routes :
        /\ Len(trace[r].node.keys_) >= 2
        /\ trace[r].node.keys_[1] = trace[r].key
        /\ \E k \in InsertedKeys : k > trace[r].key


\* ----------------------------------------------------------------------
\* C16: operator precedence of parseExpr
\* ----------------------------------------------------------------------
\* the input ends where an expression may end
Complete(toks) == Len(toks) > Len(WherePrefix) /\ ~AtOperand(toks) /\ Depth(toks) = 0

\* the last position in lo..hi that holds one of kinds outside every
\* parenthesis opened in lo..hi; 0 when there is none
LastOutside(toks, lo, hi, kinds) ==
    LET at == {j \in lo..hi : toks[j] \in kinds /\ Depth(SubSeq(toks, lo, j - 1)) = 0}
    IN IF at = {} THEN 0 ELSE CHOOSE j \in at : \A j2 \in at : j2 <= j

\* The tree the grammar
\*   or ::= or OR and | and     and ::= and AND cmp | cmp
\*   cmp ::= cmp (= | <) prim | prim     prim ::= Ident | ( or )
\* gives to toks[lo..hi]
RECURSIVE Grammar(_, _, _)
Grammar(toks, lo, hi) ==
    LET o == LastOutside(toks, lo, hi, {"KwOr"})
        a == LastOutside(toks, lo, hi, {"KwAnd"})
        c == LastOutside(toks, lo, hi, {"Eq", "Lt"})
    IN IF o # 0 THEN <<"bin", "Or", Grammar(toks, lo, o - 1), Grammar(toks, o + 1, hi)>>
       ELSE IF a # 0 THEN <<"bin", "And", Grammar(toks, lo, a - 1), Grammar(toks, a + 1, hi)>>
       ELSE IF c # 0 THEN <<"bin", toks[c], Grammar(toks, lo, c - 1), Grammar(toks, c + 1, hi)>>
       ELSE IF toks[lo] = "LParen" THEN Grammar(toks, lo + 1, hi - 1)
       ELSE <<"id", lo>>

\* C16: a complete expression after WHERE parses, without error, to the tree
\* in which comparisons bind tighter than AND, AND binds tighter than OR,
\* operators of one level group to the left and a parenthesised expression is
\* one operand; in particular a OR b AND c is Or(a, And(b, c)) and
\* (a OR b) AND c is And(Or(a, b), c)
C16_Precedence ==
    /\ Complete(input) =>
          /\ parsed.ok
          /\ parsed.stmt.where = <<Grammar(input, Len(WherePrefix) + 1, Len(input))>>
    /\ ExprTokens(input) = <<"Ident", "KwOr", "Ident", "KwAnd", "Ident">> =>
          parsed.stmt.where =
              <<Binary("Or", Identifier(6), Binary("And", Identifier(8), Identifier(10)))>>
    /\ ExprTokens(input) = <<"LParen", "Ident", "KwOr", "Ident", "RParen", "KwAnd", "Ident">> =>
          parsed.stmt.where =
              <<Binary("And", Binary("Or", Identifier(7), Identifier(9)), Identifier(12))>>

\* a OR b AND c = d has been parsed: OR at the root, AND under it, the
\* comparison under the AND
C16_Witness ==
    /\ ExprTokens(input) = <<"Ident", "KwOr", "Ident", "KwAnd", "Ident", "Eq", "Ident">>
    /\ parsed.ok
    /\ parsed.stmt.where =
          <<Binary("Or", Identifier(6),
                   Binary("And", Identifier(8), Binary("Eq", Identifier(10), Identifier(12))))>>


\* ----------------------------------------------------------------------
\* C17: a statement with a required token missing
\* ----------------------------------------------------------------------
Kinds(toks) == {toks[j] : j \in 1..Len(toks)}

\* SELECT without FROM, INSERT without INTO, UPDATE without SET, or a WHERE
\* with nothing after it
RequiredTokenMissing(toks) ==
    /\ toks # <<>>
    /\ \/ toks[1] = "KwSelect" /\ "KwFrom" \notin Kinds(toks)
       \/ toks[1] = "KwInsert" /\ "KwInto" \notin Kinds(toks)
       \/ toks[1] = "KwUpdate" /\ "KwSet" \notin Kinds(toks)
       \/ toks[1] \in {"KwSelect", "KwInsert", "KwUpdate"} /\ toks[Len(toks)] = "KwWhere"

\* C17: parseStatement throws std::runtime_error, and returns no statement,
\* whenever a required token is missing: SELECT without FROM, INSERT without
\* INTO, UPDATE without SET, or WHERE followed by no expression
C17_MissingTokenRaises == RequiredTokenMissing(input) => ~parsed.ok


\* ----------------------------------------------------------------------
\* C21: where a promoted pair goes in the parent
\* ----------------------------------------------------------------------
Puts == {i \in 1..Len(trace) : trace[i].op = "put"}

\* C21: when the child at index i of an internal node splits and promotes
\* (k', p'), the sorted position found for k' in the parent's keys is i: k'
\* becomes keys[i] and p' becomes children[i+1], right after the child that
\* split, and the node so grown is what is written or split next
C21_PromotedPlacedAfterChild ==
    \A u \in Puts :
        \E r \in Routes :
            LET e == trace[u]
                i == trace[r].i
            IN /\ trace[r].page = e.page
               /\ r < u
               /\ trace[u - 1].op = "promote"
               /\ trace[u - 1].key = e.key
               /\ trace[u - 1].page = e.child
               /\ trace[u - 5].op = "split"
               /\ trace[u - 5].page = trace[r].child
               /\ e.node = trace[r].node
               /\ e.pos = i
               /\ e.grown.keys_ = InsertAt(e.node.keys_, i, e.key)
               /\ e.grown.children_ = InsertAt(e.node.children_, i + 1, e.child)
               /\ e.grown.keys_[i + 1] = e.key
               /\ e.grown.children_[i + 1] = trace[r].child
               /\ e.grown.children_[i + 2] = e.child
               /\ u < Len(trace)
               /\ trace[u + 1].op \in {"write", "split"}
               /\ trace[u + 1].page = e.page
               /\ trace[u + 1].node.keys_ = e.grown.keys_
               /\ trace[u + 1].node.children_ = e.grown.children_

\* C21 witness: the first child of a node that has separators split, so the
\* promoted key went in front of the keys already there
C21_Witness ==
    \E u \in Puts :
        /\ trace[u].pos = 0
        /\ Len(trace[u].node.keys_) >= 1
        /\ trace[u].grown.keys_[1] = trace[u].key


\* ----------------------------------------------------------------------
\* C22: when root_page_ changes
\* ----------------------------------------------------------------------
Allocs == {i \in 1..Len(trace) : trace[i].op = "alloc"}

\* the splits of the page that was the root when the call began
RootSplits == {i \in 1..Len(trace) : trace[i].op = "split" /\ trace[i].page = prev.root_page}

\* C22: root_page_ changes only in the first Insert into an empty tree, where
\* it becomes the newly allocated leaf page, and in an Insert whose split
\* comes out of the root, where a newly allocated Internal page with
\* keys = [promoted key] and children = [old root page, promoted page] is
\* written and becomes the root; every other Insert leaves it unchanged
C22_RootChanges ==
    ninserts >= 1 =>
        IF prev.root_page = INVALID_PAGE
        THEN /\ Allocs # {}
             /\ \A a \in Allocs : trace[a].page = root_page_
             /\ root_page_ = prev.next_page
             /\ root_page_ # INVALID_PAGE
             /\ TagOf(root_page_) = NodeType_Leaf
             /\ LeafAt(root_page_).keys_ = <<last.key>>
        ELSE IF RootSplits # {}
        THEN \A i \in RootSplits :
                /\ i + 7 = Len(trace)
                /\ trace[i + 4].op = "promote"
                /\ trace[i + 5].op = "alloc"
                /\ trace[i + 5].page = root_page_
                /\ trace[i + 5].page = next_page_ - 1
                /\ trace[i + 5].page \notin NodePagesIn(prev.file)
                /\ trace[i + 6].op = "write"
                /\ trace[i + 6].page = root_page_
                /\ trace[i + 7].op = "setroot"
                /\ root_page_ # prev.root_page
                /\ TagOf(root_page_) = NodeType_Internal
                /\ InternalAt(root_page_).keys_ = <<trace[i + 4].key>>
                /\ InternalAt(root_page_).children_ = <<prev.root_page, trace[i + 4].page>>
                /\ PageOf(prev.root_page) = trace[i + 2].bytes
        ELSE root_page_ = prev.root_page

\* C22 witness: a root that was an internal node split, and the tree got a
\* new root above it
C22_Witness ==
    /\ \E i \in RootSplits : trace[i].kind = "internal"
    /\ root_page_ # prev.root_page
    /\ InternalAt(root_page_).children_[1] = prev.root_page


\* ----------------------------------------------------------------------
\* C23: what is written, and where
\* ----------------------------------------------------------------------
\* C23: every page written has tag byte 1 (Leaf) or 2 (Internal) at offset 0,
\* the tag of the node it was serialized from; no page with tag 0 (Invalid)
\* is written, page 0 is never the target of a write, and so page 0 of the
\* file stays as zeros and every other page of the file holds tag 1 or 2
C23_TagsWritten ==
    /\ \A w \in Writes :
          /\ trace[w].page # INVALID_PAGE
          /\ ByteAt(trace[w].bytes, 0) \in {NodeType_Leaf, NodeType_Internal}
          /\ ByteAt(trace[w].bytes, 0) # NodeType_Invalid
          /\ ByteAt(trace[w].bytes, 0) =
                IF IsInternalNode(trace[w].node) THEN NodeType_Internal ELSE NodeType_Leaf
    /\ file # <<>> => PageOf(0) = <<>>
    /\ \A p \in 1..(Len(file) - 1) : TagOf(p) \in {NodeType_Leaf, NodeType_Internal}

\* C23 witness: one Insert wrote leaf pages and internal pages, a new root
\* among them
C23_Witness ==
    /\ \E w \in Writes : ByteAt(trace[w].bytes, 0) = NodeType_Leaf
    /\ \E w \in Writes :
          /\ ByteAt(trace[w].bytes, 0) = NodeType_Internal
          /\ trace[w].page = root_page_
          /\ root_page_ # prev.root_page
    /\ Cardinality(Writes) >= 5


\* ----------------------------------------------------------------------
\* C24, C25: the order of the steps of one Insert
\* ----------------------------------------------------------------------
\* the pages node points to: its children, or its next leaf
Referenced(node) ==
    IF IsInternalNode(node) THEN {node.children_[j] : j \in 1..Len(node.children_)}
    ELSE {node.next_leaf_page_} \ {INVALID_PAGE}

\* page p was written before position w of the trace
WrittenBefore(p, w) == \E v \in Writes : v < w /\ trace[v].page = p /\ trace[v].ok

SetRoots == {i \in 1..Len(trace) : trace[i].op = "setroot"}

\* a page allocated by the call is written before any page that points to it
NewPagesWrittenFirst ==
    \A w \in Writes : \A a \in Allocs :
        trace[a].page \in Referenced(trace[w].node) => WrittenBefore(trace[a].page, w)

\* the update of root_page_ is the last step of the call
SetRootLast == \A i \in SetRoots : i = Len(trace)

\* C24: within one Insert a page is written before any page that references
\* it: a newly allocated page is written before the page holding a child
\* pointer or a next_leaf link to it, and the update of root_page is the last
\* step of the Insert
C24_WriteOrder == NewPagesWrittenFirst /\ SetRootLast


\* C25: at every step of every Insert root_page is 0 or the number of a page
\* whose node has already been written: root_page is never set to a page
\* number before that page is written, in the empty-tree case as in the
\* root-growth case
C25_RootSetAfterWrite == \A i \in SetRoots : WrittenBefore(trace[i].page, i)


\* ----------------------------------------------------------------------
\* C26: the pages one Insert touches
\* ----------------------------------------------------------------------
Reads == {i \in 1..Len(trace) : trace[i].op = "read"}
PathPages == {trace[i].page : i \in Reads}
NewPages == {trace[i].page : i \in Allocs}
WrittenPages == {trace[i].page : i \in Writes}
Splits == {i \in 1..Len(trace) : trace[i].op = "split"}

\* only pages of the descent path and newly allocated pages are written, an
\* internal page of the path only if its child on the path split, and every
\* other page is as it was
WritesOnlyPath ==
    /\ WrittenPages \subseteq PathPages \cup NewPages
    /\ \A w \in Writes :
          trace[w].page \in PathPages /\ IsInternalNode(trace[w].node) =>
              \E r \in Routes : \E x \in Splits :
                  /\ trace[r].page = trace[w].page
                  /\ trace[x].page = trace[r].child
    /\ \A p \in 0..(Len(file) - 1) :
          p \notin WrittenPages => PageOf(p) = PageIn(prev.file, p)

\* the call wrote one page, the leaf it reached, and allocated nothing
OnlyLeafWritten ==
    /\ Cardinality(Writes) = 1
    /\ \A w \in Writes : \E d \in LeafReached : trace[d].page = trace[w].page
    /\ Allocs = {}
    /\ next_page_ = prev.next_page
    /\ Len(file) = Len(prev.file)

\* C26 as stated: an Insert writes only pages on its descent path and pages
\* it newly allocates, an internal page on the path only if its child on the
\* path split; an Insert that causes no split writes exactly one page (the
\* target leaf), allocates no page and leaves every other page and
\* next_free_page unchanged
C26_NoSplitWritesOneLeaf ==
    ninserts >= 1 =>
        /\ WritesOnlyPath
        /\ Splits = {} => OnlyLeafWritten

\* C26 (as amended): the same for an Insert into a tree that is not empty;
\* the first Insert into an empty tree, which splits nothing and has no
\* descent path, allocates one page and writes only that page
C26_NoSplitWritesOneLeafUnlessEmpty ==
    ninserts >= 1 =>
        /\ WritesOnlyPath
        /\ Splits = {} /\ prev.root_page # INVALID_PAGE => OnlyLeafWritten
        /\ prev.root_page = INVALID_PAGE =>
              /\ Splits = {}
              /\ PathPages = {}
              /\ NewPages = {prev.next_page}
              /\ WrittenPages = NewPages
              /\ Cardinality(Writes) = 1
              /\ next_page_ = prev.next_page + 1

\* C26 witness: an Insert that split nothing, in a tree of several pages
\* below an internal root
C26_Witness ==
    /\ Splits = {}
    /\ Routes # {}
    /\ Cardinality(Writes) = 1
    /\ Len(file) >= 4
    /\ file # prev.file


\* ----------------------------------------------------------------------
\* C27: the pages of the file and the pages of the tree
\* ----------------------------------------------------------------------
\* the pages reachable from root_page_ through child pointers
TreePages == TreeInternals \cup {TreeLeaves[i] : i \in 1..Len(TreeLeaves)}

\* the parent slots <<page, index>> that hold child pointer p
SlotsTo(p) ==
    {sl \in UNION {{<<q, j>> : j \in 1..Len(InternalAt(q).children_)} : q \in TreeInternals} :
        InternalAt(sl[1]).children_[sl[2]] = p}

\* C27: after every Insert the pages reachable from root_page through child
\* pointers are exactly the allocated pages 1 .. next_free_page-1: every
\* allocated page has been written and is reachable, every page but the root
\* is referenced by exactly one parent slot and the root by none, and no
\* child pointer is 0 or names an unallocated page
C27_TreeIsAllocatedPages ==
    /\ TreePages = 1..(next_page_ - 1)
    /\ ninserts >= 1 => Len(file) = next_page_
    /\ \A p \in 1..(next_page_ - 1) :
          /\ TagOf(p) \in {NodeType_Leaf, NodeType_Internal}
          /\ \E i \in 1..Len(allocated) : allocated[i] = p
          /\ Cardinality(SlotsTo(p)) = IF p = root_page_ THEN 0 ELSE 1
    /\ \A q \in TreeInternals : \A j \in 1..Len(InternalAt(q).children_) :
          /\ InternalAt(q).children_[j] # INVALID_PAGE
          /\ InternalAt(q).children_[j] \in 1..(next_page_ - 1)
    /\ SlotsTo(INVALID_PAGE) = {}

\* C27 witness: a tree of three levels, seven pages or more, built by leaf
\* splits, an internal split and root growth
C27_Witness ==
    /\ next_page_ >= 8
    /\ TagOf(root_page_) = NodeType_Internal
    /\ \E j \in 1..Len(InternalAt(root_page_).children_) :
          TagOf(InternalAt(root_page_).children_[j]) = NodeType_Internal
    /\ TreePages = 1..(next_page_ - 1)


\* ----------------------------------------------------------------------
\* C28: the depth of the leaves
\* ----------------------------------------------------------------------
\* the depths at which the leaves below page p lie, p itself being at depth d
RECURSIVE LeafDepthsUnder(_, _, _, _)
LeafDepthsUnder(f, p, d, fuel) ==
    IF fuel = 0 \/ TagIn(f, p) = NodeType_Invalid THEN {}
    ELSE IF TagIn(f, p) = NodeType_Leaf THEN {d}
    ELSE UNION {LeafDepthsUnder(f, InternalIn(f, p).children_[j], d + 1, fuel - 1) :
                    j \in 1..Len(InternalIn(f, p).children_)}

LeafDepthsIn(f, root) ==
    IF root = INVALID_PAGE THEN {} ELSE LeafDepthsUnder(f, root, 1, Len(f) + 1)

\* the number of levels of the tree: 0 when it is empty
HeightIn(f, root) ==
    IF LeafDepthsIn(f, root) = {} THEN 0
    ELSE CHOOSE d \in LeafDepthsIn(f, root) : \A d2 \in LeafDepthsIn(f, root) : d2 <= d

\* C28: after any sequence of Inserts all leaves are at the same depth below
\* the root; the height grows by at most one per Insert, and only in an
\* Insert that allocates a new root
C28_Balanced ==
    \A h \in {HeightIn(file, root_page_)} : \A g \in {HeightIn(prev.file, prev.root_page)} :
        /\ Cardinality(LeafDepthsIn(file, root_page_)) = IF ninserts = 0 THEN 0 ELSE 1
        /\ h \in {g, g + 1}
        /\ h = g + 1 =>
              /\ root_page_ # prev.root_page
              /\ root_page_ \in NewPages
              /\ root_page_ = next_page_ - 1
        /\ h = g /\ ninserts >= 1 => root_page_ = prev.root_page

\* C28 witness: the Insert that made a tree of two levels one of three
C28_Witness ==
    /\ HeightIn(prev.file, prev.root_page) = 2
    /\ HeightIn(file, root_page_) = 3
    /\ LeafDepthsIn(file, root_page_) = {3}
    /\ Len(TreeLeaves) >= 4


\* ----------------------------------------------------------------------
\* C29: no half of a split is empty
\* ----------------------------------------------------------------------
\* C29: every split produces two non-empty halves: a split leaf has order
\* keys and leaves floor(order/2) of them on the left and order -
\* floor(order/2) on the right, both halves of a split internal node have at
\* least 1 key and 2 children, and so every leaf of the tree holds at least
\* 1 key and every internal node at least 1 key and 2 children
C29_NonEmptyHalves ==
    /\ \A i \in LeafSplits :
          /\ Len(trace[i].node.keys_) = order_
          /\ Len(trace[i + 2].node.keys_) = order_ \div 2
          /\ Len(trace[i + 3].node.keys_) = order_ - (order_ \div 2)
          /\ Len(trace[i + 2].node.keys_) >= 1
          /\ Len(trace[i + 3].node.keys_) >= 1
    /\ \A i \in InternalSplits :
          /\ Len(trace[i + 2].node.keys_) >= 1
          /\ Len(trace[i + 2].node.children_) >= 2
          /\ Len(trace[i + 3].node.keys_) >= 1
          /\ Len(trace[i + 3].node.children_) >= 2
    /\ \A i \in 1..Len(TreeLeaves) : Len(LeafAt(TreeLeaves[i]).keys_) >= 1
    /\ \A q \in TreeInternals :
          /\ Len(InternalAt(q).keys_) >= 1
          /\ Len(InternalAt(q).children_) >= 2

\* C29 witness: with order 3 an internal node of 3 keys split into halves of
\* one key and two children each, after a leaf of 3 keys split into 1 and 2
C29_Witness ==
    /\ order_ = 3
    /\ \E i \in InternalSplits :
          /\ Len(trace[i].node.keys_) = 3
          /\ Len(trace[i + 2].node.keys_) = 1
          /\ Len(trace[i + 3].node.keys_) = 1
          /\ Len(trace[i + 3].node.children_) = 2
    /\ \E i \in LeafSplits :
          /\ Len(trace[i + 2].node.keys_) = 1
          /\ Len(trace[i + 3].node.keys_) = 2


\* ----------------------------------------------------------------------
\* C30: the descent ends
\* ----------------------------------------------------------------------
\* C30: every Insert on a tree built by earlier Inserts returns: the descent
\* reads the pages of one path from the root to a leaf, each once, each
\* being the child chosen in the page read before it, none of them page 0,
\* so that the number of calls of InsertRecursive is the height of the tree
C30_DescentTerminates ==
    ninserts >= 1 =>
        /\ status = "ok"
        /\ ret = "true"
        /\ Cardinality(Reads) = HeightIn(prev.file, prev.root_page)
        /\ Cardinality(PathPages) = Cardinality(Reads)
        /\ INVALID_PAGE \notin PathPages
        /\ PathPages \subseteq NodePagesIn(prev.file)
        /\ \A i \in Reads :
              /\ trace[i].ok
              /\ trace[i + 1].op = "decode"
              /\ trace[i + 1].page = trace[i].page
              /\ trace[i + 1].as = "internal" =>
                    /\ trace[i + 2].op = "route"
                    /\ trace[i + 2].page = trace[i].page
              /\ (\A j \in Reads : i <= j) => trace[i].page = prev.root_page
        /\ \A r \in Routes :
              /\ trace[r + 1].op = "read"
              /\ trace[r + 1].page = trace[r].child
        /\ Cardinality(Routes) + Cardinality(LeafReached) = Cardinality(Reads)
        /\ Cardinality(LeafReached) = IF prev.root_page = INVALID_PAGE THEN 0 ELSE 1
        /\ \A d \in LeafReached : \A i \in Reads : i < d

\* C30 witness: an Insert into a tree of three levels returned after three
\* reads, the root, an internal node below it and a leaf
C30_Witness ==
    /\ HeightIn(prev.file, prev.root_page) = 3
    /\ Cardinality(Reads) = 3
    /\ Cardinality(Routes) = 2
    /\ ret = "true"

====
